---- MODULE Spec2Model ----
(***************************************************************************)
(* Path-to-state resolution of expo-router's fork of getStateFromPath.     *)
(*                                                                         *)
(* Strings are sequences of one-character strings, so that startsWith,    *)
(* split, replace and the regular expressions of the source are computed  *)
(* character by character, as the source computes them.                   *)
(***************************************************************************)
EXTENDS Integers, Sequences, FiniteSets, TLC

VARIABLES
  options,       \* the options argument of getStateFromPath
  href,          \* the path the caller was first given
  path,          \* the path argument of the pending or last call
  target,        \* the flattened route the caller spelled the path from, if any
  segments,      \* this.routeInfo.segments, the previously active segments
  env,           \* process.env: NODE_ENV and EXPO_BASE_URL
  baseUrlCache,  \* the module-level baseUrlCache
  configs,       \* the sorted configs of the last call ([] when it did not sort)
  remainingPath, \* the normalised path the last call matched against the configs
  result,        \* what the last call returned or threw
  prev,          \* the result of the call before it
  calls,         \* the number of calls made
  pc             \* "call": a call is pending; "returned": it has returned

vars == <<options, href, path, target, segments, env, baseUrlCache, configs,
          remainingPath, result, prev, calls, pc>>

(***************************************************************************)
(* String primitives (JavaScript String.prototype).                        *)
(***************************************************************************)
Chars(s) == [i \in 1..Len(s) |-> SubSeq(s, i, i)]

StartsWith(s, p) == Len(p) <= Len(s) /\ SubSeq(s, 1, Len(p)) = p

EndsWith(s, p) == Len(p) <= Len(s) /\ SubSeq(s, Len(s) - Len(p) + 1, Len(s)) = p

StartsWithAt(s, p, pos) ==
  pos + Len(p) - 1 <= Len(s) /\ SubSeq(s, pos, pos + Len(p) - 1) = p

Drop(s, n) == SubSeq(s, n + 1, Len(s))

\* Array.prototype.find and String.prototype.indexOf: the least of the indices a
\* predicate holds at, 0 when there is none
FindIndex(hits) ==
  IF hits = {} THEN 0 ELSE CHOOSE i \in hits : \A j \in hits : i <= j

\* index (1-based) of the first occurrence of character c at or after pos, 0 if none
IndexOfFrom(s, c, pos) == FindIndex({i \in pos..Len(s) : s[i] = c})

IndexOf(s, c) == IndexOfFrom(s, c, 1)

\* s.split(c): always at least one part, empty parts kept
RECURSIVE Split(_, _)
Split(s, c) ==
  LET i == IndexOf(s, c)
  IN IF i = 0 THEN <<s>>
     ELSE <<SubSeq(s, 1, i - 1)>> \o Split(Drop(s, i), c)

\* parts.join(c)
RECURSIVE Join(_, _)
Join(parts, c) ==
  IF parts = <<>> THEN <<>>
  ELSE IF Len(parts) = 1 THEN parts[1]
  ELSE parts[1] \o <<c>> \o Join(Tail(parts), c)

\* parts.filter(Boolean)
FilterNonEmpty(parts) == SelectSeq(parts, LAMBDA p : p # <<>>)

\* s.replace(p, r) with a string pattern: the first occurrence only
RECURSIVE ReplaceFirstFrom(_, _, _, _)
ReplaceFirstFrom(s, p, r, pos) ==
  IF pos + Len(p) - 1 > Len(s) THEN s
  ELSE IF StartsWithAt(s, p, pos)
       THEN SubSeq(s, 1, pos - 1) \o r \o Drop(s, pos + Len(p) - 1)
       ELSE ReplaceFirstFrom(s, p, r, pos + 1)

ReplaceFirst(s, p, r) == ReplaceFirstFrom(s, p, r, 1)

\* s.replace(/\/+/g, '/')
RECURSIVE CollapseSlashes(_)
CollapseSlashes(s) ==
  IF Len(s) < 2 THEN s
  ELSE IF s[1] = "/" /\ s[2] = "/" THEN CollapseSlashes(Tail(s))
  ELSE <<s[1]>> \o CollapseSlashes(Tail(s))

\* s.replace(/^\/+/g, x)
RECURSIVE StripLeadingSlashes(_)
StripLeadingSlashes(s) ==
  IF s # <<>> /\ s[1] = "/" THEN StripLeadingSlashes(Tail(s)) ELSE s

\* s.replace(/\/+$/g, '')
RECURSIVE StripTrailingSlashes(_)
StripTrailingSlashes(s) ==
  IF s # <<>> /\ s[Len(s)] = "/"
  THEN StripTrailingSlashes(SubSeq(s, 1, Len(s) - 1))
  ELSE s

\* s.replace(/^\//, '')
StripOneLeadingSlash(s) == IF s # <<>> /\ s[1] = "/" THEN Tail(s) ELSE s

\* s.replace(/\/$/, '')
StripOneTrailingSlash(s) ==
  IF s # <<>> /\ s[Len(s)] = "/" THEN SubSeq(s, 1, Len(s) - 1) ELSE s

\* s.replace(/\?.*$/, '')
StripQuery(s) ==
  LET i == IndexOf(s, "?") IN IF i = 0 THEN s ELSE SubSeq(s, 1, i - 1)

\* decodeURIComponent over the escapes the model's paths use
RECURSIVE decodeURIComponent(_)
decodeURIComponent(s) ==
  IF s = <<>> THEN <<>>
  ELSE IF StartsWith(s, <<"%", "2", "0">>)
       THEN <<" ">> \o decodeURIComponent(Drop(s, 3))
       ELSE <<s[1]>> \o decodeURIComponent(Tail(s))

(***************************************************************************)
(* Collaborators that live outside this file: the route-group detector,    *)
(* the group-segment stripper and the WHATWG URL parser.                   *)
(***************************************************************************)
\* matchGroupName(name) != null: a segment of the form (name)
matchGroupName(it) ==
  Len(it) > 2 /\ it[1] = "(" /\ it[Len(it)] = ")" /\ IndexOf(it, "/") = 0

\* stripGroupSegmentsFromPath(pathname)
stripGroupSegmentsFromPath(p) ==
  Join(SelectSeq(Split(p, "/"), LAMBDA v : ~matchGroupName(v)), "/")

\* index of the first of '/', '?', '#' at or after pos, Len(s) + 1 if none
RECURSIVE AuthorityEnd(_, _)
AuthorityEnd(s, pos) ==
  IF pos > Len(s) THEN pos
  ELSE IF s[pos] \in {"/", "?", "#"} THEN pos
  ELSE AuthorityEnd(s, pos + 1)

\* new URL(path, 'https://phony.example'): ok = FALSE when the constructor throws.
\* A path that starts with '//' names a host; an empty host is not a URL.
ParseURL(p) ==
  LET isNet  == StartsWith(p, <<"/", "/">>)
      hostTo == IF isNet THEN AuthorityEnd(p, 3) ELSE 1
      rest   == IF isNet THEN Drop(p, hostTo - 1) ELSE p
      h      == IndexOf(rest, "#")
      noHash == IF h = 0 THEN rest ELSE SubSeq(rest, 1, h - 1)
      frag   == IF h = 0 THEN <<>> ELSE Drop(rest, h)
      q      == IndexOf(noHash, "?")
      pth    == IF q = 0 THEN noHash ELSE SubSeq(noHash, 1, q - 1)
      query  == IF q = 0 THEN <<>> ELSE Drop(noHash, q)
  IN [ok       |-> ~(isNet /\ hostTo = 3),
      pathname |-> IF pth # <<>> /\ pth[1] = "/" THEN pth ELSE <<"/">> \o pth,
      search   |-> IF query = <<>> THEN <<>> ELSE <<"?">> \o query,
      hash     |-> IF frag = <<>> THEN <<>> ELSE <<"#">> \o frag]

(***************************************************************************)
(* Base URL stripping and its process-wide cache of compiled rules.        *)
(***************************************************************************)
\* the source text of new RegExp(`^\\/?${escape(baseUrl)}`, 'g')
BaseUrlRegex(b) == <<"^", "/", "?">> \o b

\* path.replace(reg, ''): the rule is anchored, so at most one replacement;
\* replace starts a global rule at lastIndex 0 and leaves it at 0, so a cached
\* rule carries nothing from one call to the next
ReplaceBaseUrl(p, reg) ==
  LET b == Drop(reg, 3)
  IN IF StartsWith(p, <<"/">> \o b) THEN Drop(p, Len(b) + 1)
     ELSE IF StartsWith(p, b) THEN Drop(p, Len(b))
     ELSE p

\* getBaseUrlRegex: the cached rule when there is one, else a fresh one
\* the fault of handing out a rule compiled for another base URL
getBaseUrlRegexShared(cache, b) ==
  IF DOMAIN cache # {} THEN cache[CHOOSE k \in DOMAIN cache : TRUE]
  ELSE BaseUrlRegex(b)

getBaseUrlRegex(cache, b) ==
  IF b \in DOMAIN cache THEN cache[b] ELSE BaseUrlRegex(b)

\* the cache after getBaseUrlRegex(b)
CacheAfterGet(cache, b) ==
  IF b \in DOMAIN cache THEN cache ELSE cache @@ (b :> BaseUrlRegex(b))

\* whether stripBaseUrl consults the cache at all
UsesBaseUrl(e) == e.NODE_ENV # "development" /\ e.EXPO_BASE_URL # <<>>

stripBaseUrl(p, e, cache) ==
  IF UsesBaseUrl(e)
  THEN ReplaceBaseUrl(IF p # <<>> /\ p[1] = "/"
                      THEN <<"/">> \o StripLeadingSlashes(p) ELSE p,
                      getBaseUrlRegex(cache, e.EXPO_BASE_URL))
  ELSE p

\* the concessions made to a parsed URL; ok = FALSE is the catch branch
UrlConcessions(parsed, e, cache) ==
  IF ~parsed.ok
  THEN [nonstandardPathname |-> <<>>, ok |-> FALSE, url |-> parsed]
  ELSE [nonstandardPathname |->
          StripTrailingSlashes(StripLeadingSlashes(
            stripBaseUrl(parsed.pathname, e, cache))) \o <<"/">>,
        ok  |-> TRUE,
        url |-> parsed]

getUrlWithReactNavigationConcessions(p, e, cache) ==
  UrlConcessions(ParseURL(p), e, cache)

\* `${stripBaseUrl(stripGroupSegmentsFromPath(pathname), baseUrl)}${search}`,
\* less its first character when the path does not start with a slash
CleanPath(p, clean) == IF StartsWith(p, <<"/">>) THEN clean ELSE Drop(clean, 1)

\* what getExpoHelpers returns for the concessions expoURL
ExpoHelpers(p, expoURL, e, cache) ==
  [ok        |-> expoURL.ok,
   cleanPath |-> CleanPath(p,
                   stripBaseUrl(stripGroupSegmentsFromPath(expoURL.url.pathname),
                                e, cache) \o expoURL.url.search),
   hash      |-> Drop(expoURL.url.hash, 1),
   nonstandardPathname |-> expoURL.nonstandardPathname]

getExpoHelpers(p, e, cache) ==
  ExpoHelpers(p, getUrlWithReactNavigationConcessions(p, e, cache), e, cache)

(***************************************************************************)
(* Pattern compilation: one piece per pattern segment, and the match of    *)
(* the anchored concatenation of the pieces against the remaining path,    *)
(* with the capture groups a backtracking engine reports.                  *)
(***************************************************************************)
\* the fault of compiling every wildcard segment as if it ended in '?'
formatRegexPatternLax(seg) ==
  LET it == ReplaceFirst(seg, <<" ">>, <<"%", "2", "0">>)
  IN IF StartsWith(it, <<":">>)
     THEN [kind |-> "dynamic", optional |-> EndsWith(it, <<"?">>), text |-> it]
     ELSE IF StartsWith(it, <<"*">>)
     THEN [kind |-> "wildcard", optional |-> TRUE, text |-> it]
     ELSE IF matchGroupName(it)
     THEN [kind |-> "group", optional |-> TRUE, text |-> it]
     ELSE [kind |-> "literal", optional |-> FALSE, text |-> it]

\* formatRegexPattern(it)
formatRegexPattern(seg) ==
  LET it == ReplaceFirst(seg, <<" ">>, <<"%", "2", "0">>)
  IN IF StartsWith(it, <<":">>)
     THEN [kind |-> "dynamic", optional |-> EndsWith(it, <<"?">>), text |-> it]
     ELSE IF StartsWith(it, <<"*">>)
     THEN [kind |-> "wildcard", optional |-> EndsWith(it, <<"?">>), text |-> it]
     ELSE IF matchGroupName(it)
     THEN [kind |-> "group", optional |-> TRUE, text |-> it]
     ELSE [kind |-> "literal", optional |-> FALSE, text |-> it]

\* the pieces of new RegExp(`^${pattern.split('/').map(formatRegexPattern).join('')}$`)
CompilePattern(pattern) ==
  LET parts == Split(pattern, "/")
  IN [i \in 1..Len(parts) |-> formatRegexPattern(parts[i])]

Undefined == [def |-> FALSE, s |-> <<>>]
Captured(s) == [def |-> TRUE, s |-> s]
NoMatch == [ok |-> FALSE, groups |-> <<>>]

\* The capture groups of pieces i.. when they match s from pos to its end, trying
\* the alternatives in the order of a backtracking engine (greedy first).
RECURSIVE MatchFrom(_, _, _, _)
RECURSIVE WildFrom(_, _, _, _, _)
MatchFrom(pieces, i, s, pos) ==
  IF i > Len(pieces)
  THEN [ok |-> pos = Len(s) + 1, groups |-> <<>>]
  ELSE
    LET pc0  == pieces[i]
        skip == LET r == MatchFrom(pieces, i + 1, s, pos)
                IN IF ~r.ok THEN NoMatch
                   ELSE IF pc0.kind = "group" THEN r
                   ELSE [ok |-> TRUE,
                         groups |-> <<Captured(<<>>), Undefined>> \o r.groups]
    IN CASE pc0.kind \in {"literal", "group"} ->
              LET lit  == pc0.text \o <<"/">>
                  take == IF StartsWithAt(s, lit, pos)
                          THEN MatchFrom(pieces, i + 1, s, pos + Len(lit))
                          ELSE NoMatch
              IN IF take.ok THEN take
                 ELSE IF pc0.optional THEN skip ELSE NoMatch
         [] pc0.kind = "dynamic" ->
              LET j    == IndexOfFrom(s, "/", pos)
                  take == IF j > pos
                          THEN MatchFrom(pieces, i + 1, s, j + 1)
                          ELSE NoMatch
              IN IF take.ok
                 THEN [ok |-> TRUE,
                       groups |-> <<Captured(SubSeq(s, pos, j)),
                                    Captured(SubSeq(s, pos, j))>> \o take.groups]
                 ELSE IF pc0.optional THEN skip ELSE NoMatch
         [] pc0.kind = "wildcard" ->
              LET take == WildFrom(pieces, i, s, pos, Len(s))
              IN IF take.ok THEN take
                 ELSE IF pc0.optional THEN skip ELSE NoMatch

\* `.*\/` from pos: the slash at k, longest first
WildFrom(pieces, i, s, pos, k) ==
  IF k < pos THEN NoMatch
  ELSE IF s[k] = "/"
  THEN LET r == MatchFrom(pieces, i + 1, s, k + 1)
       IN IF r.ok
          THEN [ok |-> TRUE,
                groups |-> <<Captured(SubSeq(s, pos, k)),
                             Captured(SubSeq(s, pos, k))>> \o r.groups]
          ELSE WildFrom(pieces, i, s, pos, k - 1)
  ELSE WildFrom(pieces, i, s, pos, k - 1)

\* remainingPath.match(config.regex): match[0] is the element at index 1
RegexMatch(pieces, s) ==
  LET r == MatchFrom(pieces, 1, s, 1)
  IN IF r.ok THEN [ok |-> TRUE, groups |-> <<Captured(s)>> \o r.groups]
     ELSE NoMatch


(***************************************************************************)
(* Configuration flattening.  A configuration node is a record             *)
(*   [name, isString, str, hasPath, path, exact, hasScreens, screens,      *)
(*    initialRouteName, parse]                                             *)
(* where screens is the ordered list of child nodes (Object.keys order),   *)
(* an empty initialRouteName stands for none, and parse is the set of      *)
(* parameter names coerced with Number.                                    *)
(***************************************************************************)
\* joinPaths(...paths)
joinPaths(paths) ==
  LET RECURSIVE Parts(_)
      Parts(ps) == IF ps = <<>> THEN <<>>
                   ELSE Split(ps[1], "/") \o Parts(Tail(ps))
  IN Join(FilterNonEmpty(Parts(paths)), "/")

\* name.split('/') over all route names, flattened
RECURSIVE FlatSplit(_)
FlatSplit(names) ==
  IF names = <<>> THEN <<>>
  ELSE Split(names[1], "/") \o FlatSplit(Tail(names))

createConfigItem(screen, routeNames, rawPattern, ownPath, parse, hasChildren) ==
  LET pattern == Join(FilterNonEmpty(Split(rawPattern, "/")), "/")
  IN [screen     |-> screen,
      hasRegex   |-> pattern # <<>>,
      regex      |-> IF pattern # <<>> THEN CompilePattern(pattern) ELSE <<>>,
      pattern    |-> pattern,
      path       |-> ownPath,
      routeNames |-> routeNames,
      parse      |-> parse,
      expandedRouteNames |-> FlatSplit(routeNames),
      hasChildren |-> hasChildren]

NoPattern == [def |-> FALSE, s |-> <<>>]
SomePattern(s) == [def |-> TRUE, s |-> s]

\* createNormalizedConfigs for one screen: the flattened routes of the node and
\* of its descendants, and the initial-route entries pushed on the way, both in
\* the order the source pushes them.  parents holds the names above the node.
\* throws says that the error about 'exact: true' without a path was thrown: the
\* source tests config.exact && config.path === undefined inside the branch
\* typeof config.path === 'string'.
RECURSIVE createNormalizedConfigs(_, _, _)
RECURSIVE NormalizeChildren(_, _, _)
createNormalizedConfigs(node, parents, parentPattern) ==
  LET routeNames == Append(parents, node.name)
  IN IF node.isString
     THEN LET pattern == IF parentPattern.def /\ parentPattern.s # <<>>
                         THEN joinPaths(<<parentPattern.s, node.str>>)
                         ELSE node.str
          IN [configs  |-> <<createConfigItem(node.name, routeNames, pattern,
                                              node.str, {}, FALSE)>>,
              initials |-> <<>>,
              throws   |-> FALSE]
     ELSE LET pattern ==
                IF ~node.hasPath THEN NoPattern
                ELSE IF ~node.exact
                THEN SomePattern(joinPaths(
                       <<IF parentPattern.def THEN parentPattern.s ELSE <<>>,
                         node.path>>))
                ELSE SomePattern(node.path)
              own ==
                IF node.hasPath
                THEN <<createConfigItem(node.name, routeNames, pattern.s,
                                        node.path, node.parse,
                                        node.hasScreens /\ node.screens # <<>>)>>
                ELSE <<>>
              init ==
                IF node.hasScreens /\ node.initialRouteName # <<>>
                THEN <<[initialRouteName |-> node.initialRouteName,
                        parentScreens    |-> routeNames]>>
                ELSE <<>>
              kids ==
                IF node.hasScreens
                THEN NormalizeChildren(node.screens, routeNames,
                                       IF pattern.def THEN pattern ELSE parentPattern)
                ELSE [configs |-> <<>>, initials |-> <<>>, throws |-> FALSE]
          IN [configs  |-> own \o kids.configs,
              initials |-> init \o kids.initials,
              throws   |-> \/ (node.hasPath /\ node.exact /\ ~node.hasPath)
                           \/ kids.throws]

\* Object.keys(config.screens).forEach(...)
NormalizeChildren(nodes, parents, parentPattern) ==
  IF nodes = <<>> THEN [configs |-> <<>>, initials |-> <<>>, throws |-> FALSE]
  ELSE LET first == createNormalizedConfigs(nodes[1], parents, parentPattern)
           rest  == NormalizeChildren(Tail(nodes), parents, parentPattern)
       IN [configs  |-> first.configs \o rest.configs,
           initials |-> first.initials \o rest.initials,
           throws   |-> first.throws \/ rest.throws]

\* the unsorted configs and the initial routes of getStateFromPath
FlattenOptions(opts) ==
  LET top == NormalizeChildren(opts.screens, <<>>, NoPattern)
      own == IF opts.initialRouteName # <<>>
             THEN <<[initialRouteName |-> opts.initialRouteName,
                     parentScreens    |-> <<>>]>>
             ELSE <<>>
  IN [configs |-> top.configs, initials |-> own \o top.initials,
      throws |-> top.throws]


(***************************************************************************)
(* Specificity order.                                                      *)
(***************************************************************************)
\* Collation of String.prototype.localeCompare in the root locale: punctuation
\* before digits before letters, letters compared without case first and lower
\* case before upper case on a tie.
CollationOrder == Chars(" _-,;:!?.'()[]{}@*/&#%+<=>|~$0123456789abcdefghijklmnopqrstuvwxyz")
UpperCase == Chars("ABCDEFGHIJKLMNOPQRSTUVWXYZ")
LowerCase == Chars("abcdefghijklmnopqrstuvwxyz")

PositionIn(c, order) == IndexOfFrom(order, c, 1)

IsUpper(c) == PositionIn(c, UpperCase) # 0
Fold(c) == IF IsUpper(c) THEN LowerCase[PositionIn(c, UpperCase)] ELSE c
PrimaryRank(c) == PositionIn(Fold(c), CollationOrder)

\* the sign of x.localeCompare(y)
RECURSIVE ComparePrimary(_, _)
ComparePrimary(x, y) ==
  IF x = <<>> /\ y = <<>> THEN 0
  ELSE IF x = <<>> THEN -1
  ELSE IF y = <<>> THEN 1
  ELSE IF PrimaryRank(x[1]) < PrimaryRank(y[1]) THEN -1
  ELSE IF PrimaryRank(x[1]) > PrimaryRank(y[1]) THEN 1
  ELSE ComparePrimary(Tail(x), Tail(y))

RECURSIVE CompareCase(_, _)
CompareCase(x, y) ==
  IF x = <<>> \/ y = <<>> THEN 0
  ELSE IF IsUpper(x[1]) /\ ~IsUpper(y[1]) THEN 1
  ELSE IF ~IsUpper(x[1]) /\ IsUpper(y[1]) THEN -1
  ELSE CompareCase(Tail(x), Tail(y))

localeCompare(x, y) ==
  IF ComparePrimary(x, y) # 0 THEN ComparePrimary(x, y) ELSE CompareCase(x, y)

\* s.includes(sub)
Includes(s, sub) == \E i \in 1..(Len(s) + 1) : StartsWithAt(s, sub, i)

NotFoundSegment == Chars("*not-found")
IndexName == Chars("index")

IsIndexScreen(screen) ==
  screen = IndexName \/ EndsWith(screen, <<"/">> \o IndexName)

\* aParts / bParts of sortConfigs
SortParts(c) ==
  SelectSeq(Split(c.pattern, "/"), LAMBDA part : ~matchGroupName(part))
    \o (IF IsIndexScreen(c.screen) THEN <<IndexName>> ELSE <<>>)

\* isAStaticRoute / isBStaticRoute
StaticParts(parts) ==
  \A i \in 1..Len(parts) :
    ~(StartsWith(parts[i], <<":">>) \/ StartsWith(parts[i], <<"*">>)
        \/ Includes(parts[i], NotFoundSegment))

IsStaticRoute(c) == ~c.hasChildren /\ StaticParts(SortParts(c))

IsGroupSegment(value) ==
  StartsWith(value, <<"(">>) /\ EndsWith(value, <<")">>)

\* similarToPreviousA.length
SimilarToPrevious(c, previousSegments) ==
  Cardinality({i \in 1..Len(previousSegments) :
                 /\ i <= Len(c.expandedRouteNames)
                 /\ previousSegments[i] = c.expandedRouteNames[i]
                 /\ IsGroupSegment(previousSegments[i])})

\* the fault of leaving the wildcard stage out of the segment loop
RECURSIVE CompareSegmentsNoWildcard(_, _, _)
CompareSegmentsNoWildcard(aParts, bParts, i) ==
  IF i > Len(aParts) /\ i > Len(bParts) THEN 0
  ELSE IF i > Len(aParts) THEN 1
  ELSE IF i > Len(bParts) THEN -1
  ELSE IF StartsWith(aParts[i], <<":">>) /\ ~StartsWith(bParts[i], <<":">>) THEN 1
  ELSE IF ~StartsWith(aParts[i], <<":">>) /\ StartsWith(bParts[i], <<":">>) THEN -1
  ELSE CompareSegmentsNoWildcard(aParts, bParts, i + 1)

\* the segment-by-segment loop of sortConfigs from index i; 0 when it ends undecided
RECURSIVE CompareSegments(_, _, _)
CompareSegments(aParts, bParts, i) ==
  IF i > Len(aParts) /\ i > Len(bParts) THEN 0
  ELSE IF i > Len(aParts) THEN 1
  ELSE IF i > Len(bParts) THEN -1
  ELSE
    LET aWildCard == StartsWith(aParts[i], <<"*">>)
        bWildCard == StartsWith(bParts[i], <<"*">>)
        aSlug     == StartsWith(aParts[i], <<":">>)
        bSlug     == StartsWith(bParts[i], <<":">>)
        aNotFound == aParts[i] = NotFoundSegment
        bNotFound == bParts[i] = NotFoundSegment
    IN IF aWildCard /\ bWildCard
       THEN IF aNotFound /\ bNotFound THEN CompareSegments(aParts, bParts, i + 1)
            ELSE IF aNotFound THEN 1
            ELSE IF bNotFound THEN -1
            ELSE CompareSegments(aParts, bParts, i + 1)
       ELSE IF aWildCard THEN 1
       ELSE IF bWildCard THEN -1
       ELSE IF aSlug /\ bSlug
       THEN IF aNotFound /\ bNotFound THEN CompareSegments(aParts, bParts, i + 1)
            ELSE IF aNotFound THEN 1
            ELSE IF bNotFound THEN -1
            ELSE CompareSegments(aParts, bParts, i + 1)
       ELSE IF aSlug THEN 1
       ELSE IF bSlug THEN -1
       ELSE CompareSegments(aParts, bParts, i + 1)

\* initialPatterns of getSortConfigsFn
InitialPatterns(initialRoutes) ==
  {joinPaths(initialRoutes[i].parentScreens \o <<initialRoutes[i].initialRouteName>>) :
     i \in 1..Len(initialRoutes)}

\* the fault of moving the shorter of two prefix-related patterns up
ComparePatternsShorterFirst(a, b) ==
  IF a.pattern = b.pattern
  THEN localeCompare(Join(b.routeNames, ">"), Join(a.routeNames, ">"))
  ELSE IF StartsWith(a.pattern, b.pattern) /\ b.screen # IndexName THEN 1
  ELSE IF StartsWith(b.pattern, a.pattern) /\ a.screen # IndexName THEN -1
  ELSE 2

\* the first two stages: identical patterns, then the longer of two prefix-related
\* patterns; 2 when neither decides
ComparePatterns(a, b) ==
  IF a.pattern = b.pattern
  THEN localeCompare(Join(b.routeNames, ">"), Join(a.routeNames, ">"))
  ELSE IF StartsWith(a.pattern, b.pattern) /\ b.screen # IndexName THEN -1
  ELSE IF StartsWith(b.pattern, a.pattern) /\ a.screen # IndexName THEN 1
  ELSE 2

\* the fault of returning the two signs of the static rule the wrong way round
CompareStaticSwapped(a, b) ==
  IF IsStaticRoute(a) /\ ~IsStaticRoute(b) THEN 1
  ELSE IF ~IsStaticRoute(a) /\ IsStaticRoute(b) THEN -1
  ELSE 2

\* static before non-static; 2 when both are the same kind
CompareStatic(a, b) ==
  IF IsStaticRoute(a) /\ ~IsStaticRoute(b) THEN -1
  ELSE IF ~IsStaticRoute(a) /\ IsStaticRoute(b) THEN 1
  ELSE 2

\* sortConfigs(a, b): negative when a is tried before b
sortConfigs(a, b, initialRoutes, previousSegments) ==
  IF ComparePatterns(a, b) # 2 THEN ComparePatterns(a, b)
  ELSE IF CompareStatic(a, b) # 2 THEN CompareStatic(a, b)
  ELSE
    LET simA == SimilarToPrevious(a, previousSegments)
        simB == SimilarToPrevious(b, previousSegments)
        bySegments == CompareSegments(SortParts(a), SortParts(b), 1)
        aIsInitial == Join(a.routeNames, "/") \in InitialPatterns(initialRoutes)
        bIsInitial == Join(b.routeNames, "/") \in InitialPatterns(initialRoutes)
    IN IF (simA > 0 \/ simB > 0) /\ simA # simB THEN simB - simA
       ELSE IF bySegments # 0 THEN bySegments
       ELSE IF aIsInitial /\ ~bIsInitial THEN -1
       ELSE IF ~aIsInitial /\ bIsInitial THEN 1
       ELSE Len(SortParts(b)) - Len(SortParts(a))

Sign(n) == IF n < 0 THEN -1 ELSE IF n > 0 THEN 1 ELSE 0

\* Array.prototype.sort is stable, and its result is defined by the language only
\* for a consistent comparator; for any other the order is implementation-defined.
\* m[i][j] is the sign of sortConfigs(list[i], list[j])
RECURSIVE ComparisonRow(_, _, _, _, _)
ComparisonRow(list, i, j, initialRoutes, previousSegments) ==
  IF j > Len(list) THEN <<>>
  ELSE <<Sign(sortConfigs(list[i], list[j], initialRoutes, previousSegments))>>
         \o ComparisonRow(list, i, j + 1, initialRoutes, previousSegments)

RECURSIVE ComparisonRows(_, _, _, _)
ComparisonRows(list, i, initialRoutes, previousSegments) ==
  IF i > Len(list) THEN <<>>
  ELSE <<ComparisonRow(list, i, 1, initialRoutes, previousSegments)>>
         \o ComparisonRows(list, i + 1, initialRoutes, previousSegments)

ComparisonMatrix(list, initialRoutes, previousSegments) ==
  ComparisonRows(list, 1, initialRoutes, previousSegments)

ConsistentComparator(m, n) ==
  /\ \A i, j \in 1..n : m[i][j] = -m[j][i]
  /\ \A i, j, k \in 1..n : (m[i][j] <= 0 /\ m[j][k] <= 0) => m[i][k] <= 0

IndexPermutations(n) ==
  {p \in [1..n -> 1..n] : \A i, j \in 1..n : i # j => p[i] # p[j]}

\* the order a stable sort leaves the list in under a consistent comparator m
StableOrder(list, m) ==
  LET n == Len(list)
      position == [i \in 1..n |->
        1 + Cardinality({j \in 1..n : m[j][i] < 0 \/ (m[j][i] = 0 /\ j < i)})]
  IN [x \in 1..n |-> list[CHOOSE i \in 1..n : position[i] = x]]

\* the orders configs.sort(sortConfigs) can leave the list in
SortOutcomes(list, initialRoutes, previousSegments) ==
  UNION {IF ConsistentComparator(m, Len(list))
         THEN {StableOrder(list, m)}
         ELSE {[x \in 1..Len(list) |-> list[p[x]]] : p \in IndexPermutations(Len(list))} :
           m \in {ComparisonMatrix(list, initialRoutes, previousSegments)}}

(***************************************************************************)
(* Parameter values: [t |-> "string" | "number" | "array", v |-> ...].     *)
(***************************************************************************)
StringValue(s) == [t |-> "string", v |-> s]

Digits == {"0", "1", "2", "3", "4", "5", "6", "7", "8", "9"}

RECURSIVE StripLeadingZeros(_)
StripLeadingZeros(s) ==
  IF Len(s) > 1 /\ s[1] = "0" THEN StripLeadingZeros(Tail(s)) ELSE s

\* Number(value): the coercer the model's parse maps use
RECURSIVE TrimLeft(_)
TrimLeft(s) == IF s # <<>> /\ s[1] = " " THEN TrimLeft(Tail(s)) ELSE s

RECURSIVE TrimRight(_)
TrimRight(s) ==
  IF s # <<>> /\ s[Len(s)] = " " THEN TrimRight(SubSeq(s, 1, Len(s) - 1)) ELSE s

NumberOf(s) ==
  LET trimmed == TrimRight(TrimLeft(s))
  IN [t |-> "number",
      v |-> IF trimmed = <<>> THEN <<"0">>
            ELSE IF \A i \in 1..Len(trimmed) : trimmed[i] \in Digits
            THEN StripLeadingZeros(trimmed)
            ELSE Chars("NaN")]

\* JavaScript truthiness of a parameter value
Truthy(val) ==
  CASE val.t = "string" -> val.v # <<>>
    [] val.t = "number" -> val.v \notin {<<"0">>, Chars("NaN")}
    [] OTHER -> TRUE

Coerce(parse, key, s) == IF key \in parse THEN NumberOf(s) ELSE StringValue(s)

NoParams == <<>>

\* Object.assign({}, x, y): the keys of y override
Assign(x, y) == y @@ x

(***************************************************************************)
(* Matching.                                                               *)
(***************************************************************************)
\* match[k] of a JavaScript match array (k counted from 0)
MatchAt(groups, k) == IF k + 1 <= Len(groups) THEN groups[k + 1] ELSE Undefined

\* number of parts among the first i that start with ':', minus one: acc.pos
ParamPos(parts, i) ==
  Cardinality({j \in 1..i : StartsWith(parts[j], <<":">>)}) - 1

\* matchedParams: [p, index] -> the decoded text the source reads for that part
MatchedParams(pattern, groups) ==
  LET parts == Split(pattern, "/")
      read(i) == MatchAt(groups, (ParamPos(parts, i) + 1) * 2)
      found == {i \in 1..Len(parts) :
                  /\ StartsWith(parts[i], <<":">>)
                  /\ read(i).def /\ read(i).s # <<>>}
  IN [k \in {<<parts[i], i - 1>> : i \in found} |->
        decodeURIComponent(StripOneTrailingSlash(read(k[2] + 1).s))]

\* pattern.replace(new RegExp(`${escape(normalizedPath)}$`), '')
StripSuffix(s, suffix) ==
  IF EndsWith(s, suffix) THEN SubSeq(s, 1, Len(s) - Len(suffix)) ELSE s

ParamKey(p) ==
  LET noColon == IF StartsWith(p, <<":">>) THEN Tail(p) ELSE p
  IN IF EndsWith(noColon, <<"?">>) THEN SubSeq(noColon, 1, Len(noColon) - 1)
     ELSE noColon

\* the params of one route of the matched chain
RouteParams(name, config, list, matchedParams) ==
  LET rc == FindIndex({i \in 1..Len(list) :
                         /\ list[i].screen = name
                         /\ StartsWith(config.pattern, list[i].pattern)})
  IN IF rc = 0 THEN NoParams
     ELSE
       LET routeConfig == list[rc]
           normalizedPath == Join(FilterNonEmpty(Split(routeConfig.path, "/")), "/")
           numInitialSegments ==
             Len(Split(StripSuffix(routeConfig.pattern, normalizedPath), "/"))
           offset == IF numInitialSegments # 0 THEN numInitialSegments - 1 ELSE 0
           parts == Split(normalizedPath, "/")
           has(i) == /\ StartsWith(parts[i], <<":">>)
                     /\ <<parts[i], i - 1 + offset>> \in DOMAIN matchedParams
                     /\ matchedParams[<<parts[i], i - 1 + offset>>] # <<>>
           keys == {ParamKey(parts[i]) : i \in {j \in 1..Len(parts) : has(j)}}
           last(key) == CHOOSE i \in 1..Len(parts) :
                          /\ has(i) /\ ParamKey(parts[i]) = key
                          /\ \A j \in 1..Len(parts) :
                               (has(j) /\ ParamKey(parts[j]) = key) => j <= i
       IN [key \in keys |->
             Coerce(routeConfig.parse, key,
                    matchedParams[<<parts[last(key)], last(key) - 1 + offset>>])]

ParsedRoute(name, params) ==
  [name      |-> name,
   hasParams |-> params # NoParams,
   params    |-> params,
   hasPath   |-> FALSE,
   path      |-> <<>>,
   state     |-> "none"]

\* the fault of letting the outer route's value stand
RECURSIVE MergeParamsOuterWins(_)
MergeParamsOuterWins(routes) ==
  IF routes = <<>> THEN NoParams
  ELSE Assign(MergeParamsOuterWins(Tail(routes)), routes[1].params)

RECURSIVE MergeParams(_)
MergeParams(routes) ==
  IF routes = <<>> THEN NoParams
  ELSE Assign(routes[1].params, MergeParams(Tail(routes)))

\* the routes matchAgainstConfigs builds for the config that matched
\* routes.map((route) => ({ ...route, params: mergedParams }))
WithMergedParams(routes, mergedParams) ==
  IF mergedParams # NoParams
  THEN [i \in 1..Len(routes) |-> ParsedRoute(routes[i].name, mergedParams)]
  ELSE routes

\* the merged params given to every route of the chain
CascadeParams(routes) == WithMergedParams(routes, MergeParams(routes))

MatchedRoutes(config, list, groups) ==
  CascadeParams([i \in 1..Len(config.routeNames) |->
                   ParsedRoute(config.routeNames[i],
                               RouteParams(config.routeNames[i], config, list,
                                           MatchedParams(config.pattern, groups)))])

\* the fault of keeping the last config whose rule matches instead of the first
RECURSIVE LastMatch(_, _)
LastMatch(remaining, list) ==
  IF list = <<>> THEN 0
  ELSE IF list[Len(list)].hasRegex /\ RegexMatch(list[Len(list)].regex, remaining).ok
  THEN Len(list)
  ELSE LastMatch(remaining, SubSeq(list, 1, Len(list) - 1))

\* index in the sorted list of the first config whose rule matches; 0 when none
FirstMatch(remaining, list) ==
  FindIndex({i \in 1..Len(list) :
               list[i].hasRegex /\ RegexMatch(list[i].regex, remaining).ok})

\* the routes built from the config at index i, the first that matched
RoutesOfMatch(remaining, list, i) ==
  IF i = 0 THEN [found |-> FALSE, routes |-> <<>>]
  ELSE [found  |-> TRUE,
        routes |-> MatchedRoutes(list[i], list,
                                 RegexMatch(list[i].regex, remaining).groups)]

matchAgainstConfigs(remaining, list) ==
  RoutesOfMatch(remaining, list, FirstMatch(remaining, list))


(***************************************************************************)
(* Query string.                                                           *)
(***************************************************************************)
\* the [name, value] pairs of new URL(path, ...).searchParams, in order
SearchParams(search) ==
  LET pieces == FilterNonEmpty(Split(Drop(search, 1), "&"))
      pair(piece) ==
        LET eq == IndexOf(piece, "=")
        IN IF eq = 0 THEN <<decodeURIComponent(piece), <<>>>>
           ELSE <<decodeURIComponent(SubSeq(piece, 1, eq - 1)),
                  decodeURIComponent(Drop(piece, eq))>>
  IN [i \in 1..Len(pieces) |-> pair(pieces[i])]

\* searchParams.getAll(name)
GetAll(pairs, name) ==
  LET hits == SelectSeq(pairs, LAMBDA pr : pr[1] = name)
  IN [i \in 1..Len(hits) |-> hits[i][2]]

HashKey == <<"#">>

\* parseQueryParams(path, parseConfig, hash); the empty function stands for undefined.
\* hasParse is FALSE when parseConfig is undefined.
\* values.length === 1 ? values[0] : values
OneOrAll(values) ==
  IF Len(values) = 1 THEN values[1] ELSE [t |-> "array", v |-> values]

\* searchParams.getAll(name), each value through parseConfig[name] when declared
QueryValues(all, coerced) ==
  [i \in 1..Len(all) |-> IF coerced THEN NumberOf(all[i]) ELSE StringValue(all[i])]

\* the params object built from the [name, value] pairs and the hash
QueryParams(pairs, hasParse, parse, hash) ==
  Assign(IF hash # <<>> THEN (HashKey :> StringValue(hash)) ELSE NoParams,
         [name \in {pairs[i][1] : i \in 1..Len(pairs)} |->
            OneOrAll(QueryValues(GetAll(pairs, name), hasParse /\ name \in parse))])

parseQueryParams(p, hasParse, parse, hash) ==
  QueryParams(SearchParams(ParseURL(p).search), hasParse, parse, hash)

\* the test of mutateRouteParams that keeps the path-derived value
KeepsRouteParam(route, name) ==
  name \in DOMAIN route.params /\ Truthy(route.params[name])

\* mutateRouteParams(route, params) with allowUrlParamNormalization = false
mutateRouteParams(route, params) ==
  LET merged == [name \in DOMAIN route.params \cup DOMAIN params |->
                   IF name \in DOMAIN params /\ ~KeepsRouteParam(route, name)
                   THEN params[name]
                   ELSE route.params[name]]
  IN [route EXCEPT !.params = merged, !.hasParams = (merged # NoParams)]

\* the names mutateRouteParams warns about
ConflictingParams(route, params) ==
  {name \in DOMAIN params : KeepsRouteParam(route, name)}

(***************************************************************************)
(* State assembly.  A state is the list of its levels, outermost first;    *)
(* a level is [hasIndex, index, routes]; the route of a level whose state  *)
(* is "nested" carries the next level, "empty" is the placeholder          *)
(* { routes: [] } and "none" is no state at all.                           *)
(***************************************************************************)
\* findInitialRoute(routeName, parentScreens, initialRoutes); empty = undefined
RECURSIVE findInitialRoute(_, _, _)
findInitialRoute(routeName, parentScreens, initialRoutes) ==
  IF initialRoutes = <<>> THEN <<>>
  ELSE LET config == initialRoutes[1]
           sameParents ==
             /\ Len(parentScreens) = Len(config.parentScreens)
             /\ \A i \in 1..Len(parentScreens) :
                   localeCompare(parentScreens[i], config.parentScreens[i]) = 0
       IN IF sameParents
          THEN IF routeName # config.initialRouteName
               THEN config.initialRouteName ELSE <<>>
          ELSE findInitialRoute(routeName, parentScreens, Tail(initialRoutes))

\* the fault of inserting the initial route without the active route's params
createStateObjectBare(initialRoute, route, isEmpty) ==
  LET active == IF isEmpty THEN route ELSE [route EXCEPT !.state = "empty"]
  IN IF initialRoute # <<>>
     THEN [hasIndex |-> TRUE, index |-> 1,
           routes |-> <<ParsedRoute(initialRoute, NoParams), active>>]
     ELSE [hasIndex |-> FALSE, index |-> 0, routes |-> <<active>>]

\* createStateObject(initialRoute, route, isEmpty)
createStateObject(initialRoute, route, isEmpty) ==
  LET active == IF isEmpty THEN route ELSE [route EXCEPT !.state = "empty"]
  IN IF initialRoute # <<>>
     THEN [hasIndex |-> TRUE, index |-> 1,
           routes |-> <<[ParsedRoute(initialRoute, route.params)
                           EXCEPT !.hasParams = route.hasParams],
                        active>>]
     ELSE [hasIndex |-> FALSE, index |-> 0, routes |-> <<active>>]

\* nestedState.index || nestedState.routes.length - 1, counted from 1
NestedStateIndex(level) ==
  IF level.hasIndex /\ level.index # 0 THEN level.index + 1 ELSE Len(level.routes)

\* the levels createNestedStateObject builds for routes k.., appended to levels
RECURSIVE BuildLevels(_, _, _, _)
BuildLevels(routes, k, initialRoutes, levels) ==
  IF k > Len(routes) THEN levels
  ELSE
    LET parentScreens == [i \in 1..(k - 1) |-> routes[i].name]
        initialRoute == findInitialRoute(routes[k].name, parentScreens, initialRoutes)
        level == createStateObject(initialRoute, routes[k], k = Len(routes))
        attached ==
          IF k = 1 THEN levels
          ELSE [levels EXCEPT
                  ![k - 1].routes[NestedStateIndex(levels[k - 1])].state = "nested"]
    IN BuildLevels(routes, k + 1, initialRoutes, Append(attached, level))

\* findFocusedRoute(state): <<level, position>> of the focused route
RECURSIVE findFocusedRoute(_, _)
findFocusedRoute(levels, k) ==
  LET at == IF levels[k].hasIndex THEN levels[k].index + 1 ELSE Len(levels[k].routes)
  IN IF levels[k].routes[at].state = "nested" /\ k < Len(levels)
     THEN findFocusedRoute(levels, k + 1)
     ELSE <<k, at>>

\* findParseConfigForRoute(routeName, flatConfig)
findParseConfigForRoute(routeName, list) ==
  LET i == FindIndex({j \in 1..Len(list) :
                        routeName = list[j].routeNames[Len(list[j].routeNames)]})
  IN IF i = 0 THEN [has |-> FALSE, parse |-> {}]
     ELSE [has |-> TRUE, parse |-> list[i].parse]

\* What a call leaves behind: the state it returned (kind "state"), undefined, or
\* the error it threw; routes keeps the ParsedRoute list the state was built from
\* and warnings the parameter names console.warn was called for.
Returned(levels, routes, warnings) ==
  [kind |-> "state", levels |-> levels, routes |-> routes,
   warnings |-> warnings, error |-> ""]
ReturnsUndefined ==
  [kind |-> "undefined", levels |-> <<>>, routes |-> <<>>,
   warnings |-> {}, error |-> ""]
Throws(error) ==
  [kind |-> "throw", levels |-> <<>>, routes |-> <<>>,
   warnings |-> {}, error |-> error]

\* the fault of merging the query into the params object the focused route
\* shares with the initial route inserted next to it
MergeQueryShared(levels, at, route, params, routes, e) ==
  Returned([levels EXCEPT ![at[1]].routes =
              [j \in 1..Len(levels[at[1]].routes) |->
                 IF params = NoParams
                 THEN (IF j = at[2] THEN route ELSE levels[at[1]].routes[j])
                 ELSE IF j = at[2] THEN mutateRouteParams(route, params)
                 ELSE [levels[at[1]].routes[j] EXCEPT
                         !.params = mutateRouteParams(route, params).params,
                         !.hasParams = mutateRouteParams(route, params).hasParams]]],
           routes,
           IF params # NoParams /\ e.NODE_ENV # "production"
           THEN ConflictingParams(route, params) ELSE {})

\* createNestedStateObject(path, routes, initialRoutes, flatConfig, hash)
\* if (params) forks.mutateRouteParams(route, params); return state
MergeQuery(levels, at, route, params, routes, e) ==
  Returned([levels EXCEPT ![at[1]].routes[at[2]] =
              IF params # NoParams THEN mutateRouteParams(route, params) ELSE route],
           routes,
           IF params # NoParams /\ e.NODE_ENV # "production"
           THEN ConflictingParams(route, params) ELSE {})

\* parseQueryParams(path, flatConfig ? findParseConfigForRoute(...) : undefined, hash)
QueryOf(p, hasFlat, found, hash) ==
  parseQueryParams(p, hasFlat /\ found.has, found.parse, hash)

\* route = findFocusedRoute(state); route.path = path; and the query merge
FocusOn(p, levels, at, routes, hasFlat, list, hash, e) ==
  MergeQuery(levels, at,
             [levels[at[1]].routes[at[2]] EXCEPT !.hasPath = TRUE, !.path = p],
             QueryOf(p, hasFlat,
                     findParseConfigForRoute(levels[at[1]].routes[at[2]].name, list),
                     hash),
             routes, e)

\* the state once its levels are built
FocusState(p, levels, routes, hasFlat, list, hash, e) ==
  FocusOn(p, levels, findFocusedRoute(levels, 1), routes, hasFlat, list, hash, e)

createNestedStateObject(p, routes, initialRoutes, hasFlat, list, hash, e) ==
  IF ~ParseURL(p).ok THEN Throws("TypeError: Invalid URL")
  ELSE FocusState(p, BuildLevels(routes, 1, initialRoutes, <<>>), routes,
                  hasFlat, list, hash, e)


(***************************************************************************)
(* getStateFromPath.                                                       *)
(***************************************************************************)
\* `remaining` before the prefix is removed
NormalizedRemaining(helpers) ==
  LET r == StripQuery(StripOneLeadingSlash(CollapseSlashes(helpers.nonstandardPathname)))
  IN IF EndsWith(r, <<"/">>) THEN r ELSE r \o <<"/">>

\* options.path without its leading slash, with a trailing slash; empty when unset
NormalizedPrefix(opts) ==
  LET prefix == StripOneLeadingSlash(opts.path)
  IN IF prefix = <<>> THEN <<>>
     ELSE IF EndsWith(prefix, <<"/">>) THEN prefix ELSE prefix \o <<"/">>

InsidePrefix(remaining, opts) ==
  NormalizedPrefix(opts) = <<>> \/ StartsWith(remaining, NormalizedPrefix(opts))

\* `remaining` after the prefix is removed
RemainingPath(helpers, opts) ==
  IF NormalizedPrefix(opts) = <<>> THEN NormalizedRemaining(helpers)
  ELSE ReplaceFirst(NormalizedRemaining(helpers), NormalizedPrefix(opts), <<>>)

\* a.length > b.length ? b.every(...) : a.every(...)
Intersects(a, b) ==
  IF Len(a) > Len(b)
  THEN \A i \in 1..Len(b) : a[i] = b[i]
  ELSE \A i \in 1..Len(a) : i <= Len(b) /\ b[i] = a[i]

\* keys that acc = {} inherits from Object.prototype, among others
InheritedKeys ==
  {Chars("constructor"), Chars("toString"), Chars("valueOf"),
   Chars("hasOwnProperty"), Chars("__proto__")}

\* The duplicate check: each config is compared with the config last stored under
\* its pattern; acc[config.pattern] of a pattern not stored yet is the inherited
\* property when the pattern is an inherited key, an object without routeNames.
\* The error the reduce throws, "" when it throws none.
RECURSIVE ConflictFrom(_, _, _)
ConflictFrom(list, i, acc) ==
  IF i > Len(list) THEN ""
  ELSE IF list[i].pattern \in DOMAIN acc
          /\ ~Intersects(list[acc[list[i].pattern]].routeNames, list[i].routeNames)
  THEN "Found conflicting screens with the same pattern"
  ELSE IF list[i].pattern \notin DOMAIN acc /\ list[i].pattern \in InheritedKeys
  THEN "TypeError: Cannot read properties of undefined (reading 'length')"
  ELSE ConflictFrom(list, i + 1, (list[i].pattern :> i) @@ acc)

ConflictingPattern(list) == ConflictFrom(list, 1, <<>>)

\* the config the root path '/' resolves to; 0 when there is none
RootMatch(list) ==
  FindIndex({m \in 1..Len(list) :
      /\ list[m].path = <<>>
      /\ \A n \in 1..Len(list[m].routeNames) :
            LET c == FindIndex({x \in 1..Len(list) :
                                  list[x].screen = list[m].routeNames[n]})
            IN c = 0 \/ list[c].path = <<>>})

\* whether the call gets as far as flattening and sorting the configuration
Proceeds(helpers, opts) ==
  /\ helpers.ok /\ InsidePrefix(NormalizedRemaining(helpers), opts)
  /\ opts.hasScreens /\ ~FlattenOptions(opts).throws

ReachesSort(p, opts, e, cache) == Proceeds(getExpoHelpers(p, e, cache), opts)

\* options.screens === undefined: one route per path segment
SegmentRoutes(names) ==
  [i \in 1..Len(names) |-> ParsedRoute(decodeURIComponent(names[i]), NoParams)]

\* routeNames.map((name) => ({ name })) of the config the root path resolves to
RootRoutes(config) ==
  [i \in 1..Len(config.routeNames) |-> ParsedRoute(config.routeNames[i], NoParams)]

\* the three ways getStateFromPath ends once `remaining` is known
StateOfSegments(p, routes, opts, hash, e) ==
  IF routes # <<>>
  THEN createNestedStateObject(
         p, routes,
         IF opts.initialRouteName # <<>>
         THEN <<[initialRouteName |-> opts.initialRouteName, parentScreens |-> <<>>]>>
         ELSE <<>>,
         FALSE, <<>>, hash, e)
  ELSE ReturnsUndefined

StateOfRoot(helpers, m, initialRoutes, sorted, e) ==
  IF m # 0
  THEN createNestedStateObject(helpers.cleanPath, RootRoutes(sorted[m]),
                               initialRoutes, TRUE, sorted, helpers.hash, e)
  ELSE ReturnsUndefined

StateOfMatch(helpers, matched, initialRoutes, sorted, e) ==
  IF matched.found
  THEN createNestedStateObject(helpers.cleanPath, matched.routes,
                               initialRoutes, TRUE, sorted, helpers.hash, e)
  ELSE ReturnsUndefined

\* the fault of attaching `remaining`, the path left after the prefix is removed,
\* to the focused route instead of the clean path
ResolveRemainingAttached(p, helpers, remaining, opts, e, initialRoutes, sorted) ==
  IF ~opts.hasScreens
  THEN StateOfSegments(p, SegmentRoutes(FilterNonEmpty(Split(remaining, "/"))),
                       opts, helpers.hash, e)
  ELSE IF FlattenOptions(opts).throws
  THEN Throws("A 'path' needs to be specified when specifying 'exact: true'")
  ELSE IF ConflictingPattern(sorted) # ""
  THEN Throws(ConflictingPattern(sorted))
  ELSE IF remaining = <<"/">>
  THEN StateOfRoot(helpers, RootMatch(sorted), initialRoutes, sorted, e)
  ELSE StateOfMatch([helpers EXCEPT !.cleanPath = remaining],
                    matchAgainstConfigs(remaining, sorted), initialRoutes, sorted, e)

\* getStateFromPath from the point where `remaining` is inside the prefix
ResolveRemaining(p, helpers, remaining, opts, e, initialRoutes, sorted) ==
  IF ~opts.hasScreens
  THEN StateOfSegments(p, SegmentRoutes(FilterNonEmpty(Split(remaining, "/"))),
                       opts, helpers.hash, e)
  ELSE IF FlattenOptions(opts).throws
  THEN Throws("A 'path' needs to be specified when specifying 'exact: true'")
  ELSE IF ConflictingPattern(sorted) # ""
  THEN Throws(ConflictingPattern(sorted))
  ELSE IF remaining = <<"/">>
  THEN StateOfRoot(helpers, RootMatch(sorted), initialRoutes, sorted, e)
  ELSE StateOfMatch(helpers, matchAgainstConfigs(remaining, sorted),
                    initialRoutes, sorted, e)

\* getStateFromPath once getExpoHelpers has returned
ResolveHelpers(p, helpers, opts, e, initialRoutes, sorted) ==
  IF ~helpers.ok THEN ReturnsUndefined
  ELSE IF ~InsidePrefix(NormalizedRemaining(helpers), opts) THEN ReturnsUndefined
  ELSE ResolveRemaining(p, helpers, RemainingPath(helpers, opts), opts, e,
                        initialRoutes, sorted)

\* getStateFromPath(path, options), given the order the sort left the configs in
getStateFromPath(p, opts, e, cache, initialRoutes, sorted) ==
  ResolveHelpers(p, getExpoHelpers(p, e, cache), opts, e, initialRoutes, sorted)


(***************************************************************************)
(* Configurations the resolver is exercised with.                          *)
(***************************************************************************)
Node(name, isString, str, hasPath, p, hasScreens, screens, initial, parse) ==
  [name |-> Chars(name), isString |-> isString, str |-> Chars(str),
   hasPath |-> hasPath, path |-> Chars(p), exact |-> FALSE,
   hasScreens |-> hasScreens, screens |-> screens,
   initialRouteName |-> Chars(initial), parse |-> parse]

\* name: 'pattern'
Literal(name, str) == Node(name, TRUE, str, FALSE, "", FALSE, <<>>, "", {})
\* name: { path }
Screen(name, p) == Node(name, FALSE, "", TRUE, p, FALSE, <<>>, "", {})
\* name: { path, parse: { key: Number } }
ScreenParse(name, p, keys) ==
  Node(name, FALSE, "", TRUE, p, FALSE, <<>>, "", {Chars(k) : k \in keys})
\* name: { path, initialRouteName, screens }
Layout(name, p, initial, screens) ==
  Node(name, FALSE, "", TRUE, p, TRUE, screens, initial, {})
\* name: { path, parse, screens }
LayoutParse(name, p, keys, screens) ==
  Node(name, FALSE, "", TRUE, p, TRUE, screens, "", {Chars(k) : k \in keys})
\* name: { initialRouteName, screens } with no path
Pathless(name, initial, screens) ==
  Node(name, FALSE, "", FALSE, "", TRUE, screens, initial, {})

Options(prefix, initial, screens) ==
  [path |-> Chars(prefix), initialRouteName |-> Chars(initial),
   hasScreens |-> TRUE, screens |-> screens]

NoScreens == [path |-> <<>>, initialRouteName |-> <<>>,
              hasScreens |-> FALSE, screens |-> <<>>]

\* a pair of sibling leaves under the root, and under a layout, in both orders
Siblings(a, b) ==
  {Options("", "", <<a, b>>), Options("", "", <<b, a>>),
   Options("", "", <<Layout("p", "p", "", <<a, b>>)>>),
   Options("", "", <<Layout("p", "p", "", <<b, a>>)>>)}

ChatConfigs ==
  {Options("", "", <<ScreenParse("Chat", "chat/:author/:id", {"id"})>>),
   Options("app", "", <<ScreenParse("Chat", "chat/:author/:id", {"id"})>>)}

StaticDynamicConfigs ==
  Siblings(Literal("User", "users/:id"), Literal("Settings", "users/settings"))
    \cup Siblings(Screen("index", "users/:id"), Screen("b c", "users/b c"))
    \cup Siblings(Literal("AX", ":a/:x"), Literal("AL", ":a/lit"))

PrefixConfigs ==
  Siblings(Literal("AB", "a/b"), Literal("ABC", "a/b/c"))
    \cup Siblings(Literal("AX", "a/:x"), Literal("AXC", "a/:x/c"))
    \cup Siblings(Literal("A", "a"), Literal("AX", "a/:x"))
    \cup {Options("", "", <<Layout("AB", "a/b", "", <<Literal("C", "c")>>)>>)}
    \cup Siblings(Literal("A", "a"), Literal("AOpt", "a/:id?"))
    \cup Siblings(Literal("X", ":x"), Literal("XY", ":xy"))

WildcardConfigs ==
  Siblings(Literal("[slug]", ":slug"), Literal("[...name]", "*name"))
    \cup Siblings(Literal("index", ":slug"), Literal("[...name]", "*name"))
    \* a wildcard that may be left out, two levels down
    \cup {Options("", "", <<Layout("docs", "docs", "",
                                   <<Layout("v", ":v", "",
                                            <<Screen("rest", "*rest?")>>)>>)>>)}

NotFoundConfigs ==
  Siblings(Literal("+not-found", "*not-found"), Literal("[...rest]", "*rest"))
    \cup Siblings(Literal("+not-found", "*not-found"), Literal("[...]", "*"))
    \cup Siblings(Literal("+not-found", "*not-found"), Literal("[...not]", "*not"))
    \cup Siblings(Literal("+not-found", "a/*not-found"), Literal("[...rest]", "a/*rest"))

RootConfigs ==
  {Options("", "", <<Literal("index", ""), Literal("about", "about")>>),
   Options("", "", <<Layout("(tabs)", "", "index",
                            <<Screen("index", ""), Screen("feed", "feed")>>)>>),
   Options("", "", <<Layout("a", "a", "", <<Screen("index", "")>>)>>),
   Options("", "", <<Literal("opt", ":x?"), Literal("rest", "*rest?")>>),
   Options("", "", <<Pathless("Home", "", <<Screen("Feed", "")>>)>>),
   Options("", "", <<Layout("X", "x/y", "", <<Screen("B", "")>>),
                     Layout("B", "b", "", <<Screen("index", "")>>)>>)}

ParamConfigs ==
  {Options("", "", <<Literal("ws", "*w/:id")>>),
   Options("", "", <<Literal("ab", ":a?/:b")>>),
   Options("", "", <<LayoutParse("user", "u/:uid", {"uid"},
                                 <<ScreenParse("post", "p/:pid", {}),
                                   Screen("index", "")>>)>>),
   Options("", "", <<Layout("A", "a/:x", "", <<Screen("A", ":y")>>)>>),
   \* a layout and its child declare a parameter of one name
   Options("", "", <<Layout("L", "s/:x", "", <<Screen("C", ":x")>>)>>),
   \* initial routes at the root and under a layout with a parameter
   Options("", "home", <<Literal("home", "home"),
                         Layout("T", "t/:x", "C",
                                <<Screen("C", ":y"), Screen("D", "d")>>)>>)}

GroupConfigs ==
  {Options("", "", <<Literal("(a)/page", "(a)/page"), Literal("(b)/page", "(b)/page")>>),
   Options("", "", <<Layout("(a)", "(a)", "index",
                            <<Screen("index", ""), Screen("page", "page")>>),
                     Layout("(b)", "(b)", "", <<Screen("other", "other")>>)>>),
   \* siblings of which one is declared inside the group (a)
   Options("", "", <<Literal("[slug]", ":slug"), Literal("(a)/[...name]", "*name")>>),
   Options("", "", <<Literal("(a)/[...name]", "*name"), Literal("[slug]", ":slug")>>),
   Options("", "", <<Literal("(a)/AX", ":a/:x"), Literal("AL", ":a/lit")>>),
   Options("", "", <<Literal("AL", ":a/lit"), Literal("(a)/AX", ":a/:x")>>),
   \* under the previous segments (g), (h) the comparator ranks these in a cycle
   Options("", "", <<Literal("(g)/B", ":u/:v"), Literal("C", ":x/:y/z"),
                     Literal("(g)/(h)/A", ":x/:y")>>)}

ConflictConfigs ==
  {Options("", "", <<Literal("A", "x"), Literal("B", "x")>>),
   Options("", "", <<Layout("L", "x", "", <<Screen("B", ""), Screen("C", "")>>)>>),
   Options("", "", <<Layout("L", "x", "", <<Screen("index", "")>>),
                     Literal("other", "y")>>),
   Options("", "", <<Layout("L", "x", "",
                            <<Layout("M", "", "", <<Screen("index", "")>>)>>)>>),
   Options("", "", <<Literal("A", "x"), Literal("B", "y"), Literal("C", "x")>>),
   Options("app", "", <<Literal("A", "x"), Literal("B", "x")>>),
   \* exact: true on a node without a path, and on a node with one
   Options("", "", <<[Pathless("E", "", <<Screen("Inner", "in")>>)
                        EXCEPT !.exact = TRUE],
                     Layout("P", "p", "",
                            <<[Screen("Abs", "abs") EXCEPT !.exact = TRUE]>>)>>),
   \* a pattern that is a key of Object.prototype
   Options("", "", <<Literal("ctor", "constructor")>>),
   \* three routes of one pattern among routes the comparator ranks in a cycle
   Options("", "", <<Layout("L", "x", "", <<Screen("B", ""), Screen("C", "")>>),
                     Literal("XId", "x/:id"), Literal("BXC", "b/:x/c")>>)}

\* a route whose pattern begins like the base URL the app is deployed under
BaseConfigs ==
  {Options("", "", <<Literal("Item", "base/:id")>>)}

\* /a, /a/:id and /b/:x/c: the comparator ranks them in a cycle
CyclicConfigs ==
  {Options("", "", <<Literal("A", "a"), Literal("AId", "a/:id"),
                     Literal("BXC", "b/:x/c")>>)}

Configurations ==
  ChatConfigs \cup StaticDynamicConfigs \cup PrefixConfigs \cup WildcardConfigs
    \cup NotFoundConfigs \cup RootConfigs \cup ParamConfigs \cup GroupConfigs
    \cup ConflictConfigs \cup BaseConfigs \cup CyclicConfigs \cup {NoScreens}


(***************************************************************************)
(* Inputs: the paths a caller can spell from a declared pattern, and a few *)
(* paths no pattern spells.                                                *)
(***************************************************************************)
\* how many path segments a spelled wildcard stands for, at most
MaxWildcardSegments == 2
\* how many times the caller resolves the focused path of a result again
MaxReresolutions == 1

RECURSIVE ReplaceAll(_, _, _)
ReplaceAll(s, c, r) ==
  IF s = <<>> THEN <<>>
  ELSE (IF s[1] = c THEN r ELSE <<s[1]>>) \o ReplaceAll(Tail(s), c, r)

\* a literal segment as a URL spells it
EncodeSegment(seg) == ReplaceAll(seg, " ", <<"%", "2", "0">>)

AllParts(list) ==
  UNION {{Split(list[i].pattern, "/")[j] : j \in 1..Len(Split(list[i].pattern, "/"))} :
           i \in 1..Len(list)}

\* the values substituted for a dynamic segment: plain text, a zero, a number, an
\* escaped space, and the literal segments the configuration itself declares
SegmentValues(list) ==
  {Chars("x"), Chars("0"), Chars("42"), Chars("j%20d")}
    \cup {EncodeSegment(part) : part \in
            {q \in AllParts(list) :
               q # <<>> /\ formatRegexPattern(q).kind = "literal"}}

WildcardValues == {Chars("x"), Chars("y")}

RECURSIVE SegmentRuns(_, _)
SegmentRuns(values, n) ==
  IF n = 0 THEN {<<>>}
  ELSE {<<v>> \o run : v \in values, run \in SegmentRuns(values, n - 1)}

\* The ways to spell parts i.. of a pattern: [segs, full, given, left], where full
\* says that no optional or group segment was left out, given maps the name of
\* each dynamic segment that was spelled to its text, and left holds the names of
\* the optional dynamic segments that were left out.
RECURSIVE Spellings(_, _, _)
Spellings(parts, i, values) ==
  IF i > Len(parts)
  THEN {[segs |-> <<>>, full |-> TRUE, given |-> <<>>, left |-> {}]}
  ELSE
    LET piece == formatRegexPattern(parts[i])
        none  == [segs |-> <<>>, full |-> TRUE, given |-> <<>>, left |-> {}]
        out   == [none EXCEPT !.full = FALSE]
        here ==
          CASE parts[i] = <<>> -> {none}
            [] piece.kind = "literal" ->
                 {[none EXCEPT !.segs = <<EncodeSegment(parts[i])>>]}
            [] piece.kind = "group" -> {[none EXCEPT !.segs = <<parts[i]>>], out}
            [] piece.kind = "dynamic" ->
                 {[none EXCEPT !.segs = <<v>>, !.given = (ParamKey(parts[i]) :> v)] :
                    v \in values}
                   \cup (IF piece.optional
                         THEN {[out EXCEPT !.left = {ParamKey(parts[i])}]} ELSE {})
            [] piece.kind = "wildcard" ->
                 {[none EXCEPT !.segs = run] :
                    run \in UNION {SegmentRuns(WildcardValues, n) :
                                     n \in 1..MaxWildcardSegments}}
                   \cup (IF piece.optional THEN {out} ELSE {})
    IN {[segs |-> h.segs \o rest.segs, full |-> h.full /\ rest.full,
         given |-> rest.given @@ h.given, left |-> h.left \cup rest.left] :
          h \in here, rest \in Spellings(parts, i + 1, values)}

\* the inputs that spell a flattened route, under the options' prefix
SpelledInputs(opts, route, list) ==
  {[target |-> [spelled |-> TRUE, full |-> sp.full, pattern |-> route.pattern,
                routeNames |-> route.routeNames, given |-> sp.given,
                left |-> sp.left],
    path   |-> <<"/">> \o joinPaths(<<opts.path, Join(sp.segs, "/")>>)] :
     sp \in Spellings(Split(route.pattern, "/"), 1, SegmentValues(list))}

NoTarget == [spelled |-> FALSE, full |-> FALSE, pattern |-> <<>>,
             routeNames |-> <<>>, given |-> <<>>, left |-> {}]

ExtraPaths ==
  {Chars("/"), Chars("//"), Chars("/nope"), Chars("/a"), Chars("a/b"), Chars("/a//b/")}

Suffixes(opts) ==
  IF opts \in ChatConfigs \cup ParamConfigs
  THEN {<<>>, Chars("?id=99"), Chars("?author=zed&tab=info#sec1"),
        Chars("?tag=a&tag=b"), Chars("?uid=7&y=1")}
  ELSE {<<>>, Chars("?q=1#top")}

Contexts(opts) ==
  IF opts \in GroupConfigs
  THEN {<<>>, <<Chars("(a)")>>, <<Chars("(b)")>>, <<Chars("(g)"), Chars("(h)")>>}
  ELSE {<<>>}

Production == [NODE_ENV |-> "production", EXPO_BASE_URL |-> <<>>]

Environments(opts) ==
  IF opts = Options("", "", <<ScreenParse("Chat", "chat/:author/:id", {"id"})>>)
  THEN {Production,
        [NODE_ENV |-> "development", EXPO_BASE_URL |-> Chars("/base")],
        [NODE_ENV |-> "production", EXPO_BASE_URL |-> Chars("/base")]}
  ELSE IF opts \in BaseConfigs
  THEN {Production, [NODE_ENV |-> "production", EXPO_BASE_URL |-> Chars("/base")]}
  ELSE {Production}

\* the deployed form of a path: under the base URL when one is configured
Deployed(p, e) == IF UsesBaseUrl(e) /\ p # <<>> /\ p[1] = "/"
                  THEN e.EXPO_BASE_URL \o p ELSE p

(***************************************************************************)
(* The state machine: a caller resolves a path, and may resolve the path   *)
(* attached to the focused route of the result again.                      *)
(***************************************************************************)
NoResult == [kind |-> "none", levels |-> <<>>, routes |-> <<>>,
             warnings |-> {}, error |-> ""]

\* the focused route of a returned state
FocusedRoute(r) ==
  LET at == findFocusedRoute(r.levels, 1) IN r.levels[at[1]].routes[at[2]]

Inputs(opts) ==
  LET flat == FlattenOptions(opts).configs
  IN UNION {SpelledInputs(opts, flat[i], flat) : i \in 1..Len(flat)}
       \cup {[target |-> NoTarget, path |-> x] : x \in ExtraPaths}

Init ==
  \E opts \in Configurations :
    \E e \in Environments(opts), segs \in Contexts(opts), suffix \in Suffixes(opts),
       input \in Inputs(opts) :
        /\ options = opts
        /\ href = Deployed(input.path, e) \o suffix
        /\ path = Deployed(input.path, e) \o suffix
        /\ target = input.target
        /\ segments = segs
        /\ env = e
        /\ baseUrlCache = <<>>
        /\ configs = <<>>
        /\ remainingPath = <<>>
        /\ result = NoResult
        /\ prev = NoResult
        /\ calls = 0
        /\ pc = "call"

\* getStateFromPath.call({ routeInfo: { segments } }, path, options)
\* Where the language leaves the order of the sort to the engine, the engine
\* still sorts the same array the same way on every call.
Resolve ==
  /\ pc = "call"
  /\ LET flat == FlattenOptions(options)
         sorts == ReachesSort(path, options, env, baseUrlCache)
     IN \E sorted \in (IF ~sorts THEN {<<>>}
                       ELSE IF configs # <<>> THEN {configs}
                       ELSE SortOutcomes(flat.configs, flat.initials, segments)) :
          /\ configs' = sorted
          /\ result' = getStateFromPath(path, options, env, baseUrlCache,
                                        flat.initials, sorted)
  /\ remainingPath' = RemainingPath(getExpoHelpers(path, env, baseUrlCache), options)
  /\ baseUrlCache' = IF ParseURL(path).ok /\ UsesBaseUrl(env)
                     THEN CacheAfterGet(baseUrlCache, env.EXPO_BASE_URL)
                     ELSE baseUrlCache
  /\ prev' = result
  /\ calls' = calls + 1
  /\ pc' = "returned"
  /\ UNCHANGED <<options, href, path, target, segments, env>>

\* the caller takes the path of the focused route and resolves it again
ResolveFocused ==
  /\ pc = "returned"
  /\ result.kind = "state"
  /\ calls <= MaxReresolutions
  /\ path' = FocusedRoute(result).path
  /\ pc' = "call"
  /\ UNCHANGED <<options, href, target, segments, env, baseUrlCache, configs,
                 remainingPath, result, prev, calls>>

\* stripBaseUrl(path, baseUrl): before a call, the caller strips the path under a
\* base URL of its own choice; the call returns a string and leaves at most a
\* compiled rule behind
StripBaseUrl ==
  /\ pc = "call"
  /\ \E b \in {Chars("/b")} :
       baseUrlCache' = IF env.NODE_ENV # "development"
                       THEN CacheAfterGet(baseUrlCache, b)
                       ELSE baseUrlCache
  /\ UNCHANGED <<options, href, path, target, segments, env, configs,
                 remainingPath, result, prev, calls, pc>>

Next == Resolve \/ ResolveFocused \/ StripBaseUrl

Spec == Init /\ [][Next]_vars



(***************************************************************************)
(* Properties.                                                             *)
(***************************************************************************)
\* position of the active route of a level: index when set, else the last route
ActiveAt(level) == IF level.hasIndex THEN level.index + 1 ELSE Len(level.routes)

\* the active chain of a returned state: the active route's name at every level
Chain(r) ==
  [k \in 1..Len(r.levels) |-> r.levels[k].routes[ActiveAt(r.levels[k])].name]

\* the first call has returned
FirstCallReturned == pc = "returned" /\ calls = 1

\* the rule of config c matches the remaining path
Matches(c, remaining) == c.hasRegex /\ RegexMatch(c.regex, remaining).ok

\* the path of the call spells every segment of the pattern of a flattened route
SpellsTarget == target.spelled /\ target.full

\* position of the spelled route in the sorted configs
TargetIndex ==
  FindIndex({i \in 1..Len(configs) : configs[i].routeNames = target.routeNames})

\* no config sorted before the spelled route matches the path
NoEarlierMatch ==
  \A i \in 1..Len(configs) : i < TargetIndex => ~Matches(configs[i], remainingPath)

HasDynamicSegment(pattern) ==
  \E i \in 1..Len(Split(pattern, "/")) : StartsWith(Split(pattern, "/")[i], <<":">>)

SiblingLeaves(list, i, j) ==
  /\ i # j
  /\ ~list[i].hasChildren /\ ~list[j].hasChildren
  /\ Len(list[i].routeNames) = Len(list[j].routeNames)
  /\ \A k \in 1..(Len(list[i].routeNames) - 1) :
        list[i].routeNames[k] = list[j].routeNames[k]

\* the two patterns have the same segments but the last, of kinds kindA and kindB
SameButLast(patternA, kindA, patternB, kindB) ==
  LET a == Split(patternA, "/")
      b == Split(patternB, "/")
  IN /\ Len(a) = Len(b) /\ patternA # <<>> /\ patternB # <<>>
     /\ \A k \in 1..(Len(a) - 1) : a[k] = b[k]
     /\ formatRegexPattern(a[Len(a)]).kind = kindA
     /\ formatRegexPattern(b[Len(b)]).kind = kindB

\* s is the route P/lit and d its sibling P/:x in the sorted configs
StaticDynamicPair(s, d) ==
  /\ SiblingLeaves(configs, s, d)
  /\ SameButLast(configs[s].pattern, "literal", configs[d].pattern, "dynamic")

\* the call resolved a path spelled from the route at i or j that the rule of the
\* route at i matches
ResolvedPathOf(i, j) ==
  /\ FirstCallReturned /\ SpellsTarget
  /\ target.routeNames \in {configs[i].routeNames, configs[j].routeNames}
  /\ Matches(configs[i], remainingPath)

NotLessSimilar(i, j) ==
  SimilarToPrevious(configs[j], segments) <= SimilarToPrevious(configs[i], segments)

ConsistentOn(flat) ==
  ConsistentComparator(ComparisonMatrix(flat.configs, flat.initials, segments),
                       Len(flat.configs))

SortIsDefined == ConsistentOn(FlattenOptions(options))

\* the pattern of the route at q is a strict string-prefix of the one at p
PrefixPair(q, p) ==
  /\ configs[q].pattern # configs[p].pattern
  /\ configs[q].pattern # <<>>
  /\ StartsWith(configs[p].pattern, configs[q].pattern)

\* the call resolved a path spelled from the route at i or the route at j
ResolvedEither(i, j) ==
  /\ FirstCallReturned /\ SpellsTarget
  /\ target.routeNames \in {configs[i].routeNames, configs[j].routeNames}

\* the route at i is the first of the sorted configs whose rule matches the path
FirstToMatch(i) ==
  /\ Matches(configs[i], remainingPath)
  /\ \A k \in 1..(i - 1) : ~Matches(configs[k], remainingPath)

DynamicWildcardPair(d, w) ==
  /\ SiblingLeaves(configs, d, w)
  /\ SameButLast(configs[d].pattern, "dynamic", configs[w].pattern, "wildcard")

LastPart(pattern) == Split(pattern, "/")[Len(Split(pattern, "/"))]

\* n is the route P/*not-found and o its sibling P/*other in the sorted configs
NotFoundPair(n, o) ==
  /\ SiblingLeaves(configs, n, o)
  /\ SameButLast(configs[n].pattern, "wildcard", configs[o].pattern, "wildcard")
  /\ LastPart(configs[n].pattern) = Chars("*not-found")
  /\ LastPart(configs[o].pattern) # Chars("*not-found")

\* C5: when a *not-found route and a route with any other wildcard both match a
\* path, the *not-found route is sorted after the other one and is not the one
\* chosen.
C5_NotFoundLast ==
  \A n, o \in 1..Len(configs) :
    (FirstCallReturned /\ NotFoundPair(n, o)
       /\ Matches(configs[n], remainingPath) /\ Matches(configs[o], remainingPath))
      => /\ o < n
         /\ result.kind = "state"
         /\ Chain(result) # configs[n].routeNames

\* the call had the root path left to resolve against a flattened configuration
ResolvedRoot == FirstCallReturned /\ remainingPath = <<"/">> /\ Len(configs) > 0

\* the route at i has an empty path of its own, and so has every route of the
\* configuration that is a member of its chain
RootChain(i) ==
  /\ configs[i].path = <<>>
  /\ \A k \in 1..Len(configs[i].routeNames), c \in 1..Len(configs) :
        configs[c].routeNames = SubSeq(configs[i].routeNames, 1, k)
          => configs[c].path = <<>>

\* C6: when the remaining path is exactly '/', a state is returned only for a
\* chain whose route and every member have an empty path, and undefined is
\* returned when the configuration has no such chain.
C6_RootPath ==
  (ResolvedRoot /\ result.kind # "throw")
    => /\ result.kind = "state"
            => \E i \in 1..Len(configs) :
                  RootChain(i) /\ Chain(result) = configs[i].routeNames
       /\ (\A i \in 1..Len(configs) : ~RootChain(i)) => result.kind = "undefined"

\* the params the path gave the focused route, before the query is merged in
PathParams == result.routes[Len(result.routes)].params

\* the keys of the query string of the resolved path
QueryKeys ==
  LET pairs == SearchParams(ParseURL(path).search)
  IN {pairs[i][1] : i \in 1..Len(pairs)}

\* C7: a call that matched a route returns a state in which every param of the
\* focused route that the path supplied keeps the path-derived value, whatever
\* that value is, when the query string has a key of the same name.
C7_PathWinsOverQuery ==
  (FirstCallReturned /\ result.kind = "state")
    => \A name \in QueryKeys \cap DOMAIN PathParams :
          /\ name \in DOMAIN FocusedRoute(result).params
          /\ FocusedRoute(result).params[name] = PathParams[name]

\* the parse map of the route of the spelled chain whose own path declares :key
DeclaredParse(key) ==
  LET declaring == {i \in 1..Len(configs) :
        /\ Len(configs[i].routeNames) <= Len(target.routeNames)
        /\ configs[i].routeNames
             = SubSeq(target.routeNames, 1, Len(configs[i].routeNames))
        /\ \E k \in 1..Len(Split(configs[i].path, "/")) :
              /\ StartsWith(Split(configs[i].path, "/")[k], <<":">>)
              /\ ParamKey(Split(configs[i].path, "/")[k]) = key}
  IN IF declaring = {} THEN {} ELSE configs[CHOOSE i \in declaring : TRUE].parse

\* the call resolved a spelled path to the route it was spelled from, and no key
\* of the query string names a dynamic segment of the pattern
ResolvedSpelled ==
  /\ FirstCallReturned /\ target.spelled /\ result.kind = "state"
  /\ Chain(result) = target.routeNames
  /\ QueryKeys \cap (DOMAIN target.given \cup target.left) = {}

\* C8: on a match, each dynamic segment of the pattern that consumed a path
\* segment gives the focused route the decoded text of that segment under its
\* name, coerced by the parse map of the declaring route, at every position of
\* the segment in the pattern; an optional segment that consumed nothing gives
\* no entry.
C8_ParamExtraction ==
  ResolvedSpelled
    => /\ \A key \in DOMAIN target.given :
            /\ key \in DOMAIN FocusedRoute(result).params
            /\ FocusedRoute(result).params[key]
                 = Coerce(DeclaredParse(key), key,
                          decodeURIComponent(target.given[key]))
       /\ \A key \in target.left \ DOMAIN target.given :
            key \notin DOMAIN FocusedRoute(result).params

\* the path of the focused route of a result has been resolved again
ResolvedAgain == pc = "returned" /\ calls >= 2

HasGroupSegment(p) ==
  stripGroupSegmentsFromPath(ParseURL(p).pathname) # ParseURL(p).pathname

\* the path begins with the base URL the app is deployed under, which the next
\* call strips from it
BeginsWithBaseUrl(p) ==
  /\ UsesBaseUrl(env)
  /\ \/ StartsWith(p, env.EXPO_BASE_URL)
     \/ StartsWith(p, <<"/">> \o env.EXPO_BASE_URL)

Unrelated(a, b) ==
  \E k \in 1..Len(a) : k <= Len(b) /\ a[k] # b[k]

\* two routes of the flattened configuration have one pattern and unrelated chains
Ambiguous ==
  \E i, j \in 1..Len(configs) :
    /\ configs[i].pattern = configs[j].pattern
    /\ Unrelated(configs[i].routeNames, configs[j].routeNames)

\* C10: a call with a parseable path inside the prefix throws the configuration
\* error when two routes of the flattened configuration have an identical pattern
\* and chains that are not prefix-related, wherever the sort left them, and
\* throws no error otherwise.
C10_AmbiguousFatal ==
  (FirstCallReturned /\ Len(configs) > 0)
    => IF Ambiguous
       THEN /\ result.kind = "throw"
            /\ result.error = "Found conflicting screens with the same pattern"
       ELSE result.kind # "throw"

\* some node of the tree sets exact: true and declares no path
RECURSIVE ExactWithoutPath(_)
ExactWithoutPath(nodes) ==
  \E i \in 1..Len(nodes) :
    \/ (~nodes[i].isString /\ nodes[i].exact /\ ~nodes[i].hasPath)
    \/ (nodes[i].hasScreens /\ ExactWithoutPath(nodes[i].screens))

\* the first call got as far as flattening the configuration
ReachedFlatten ==
  /\ FirstCallReturned /\ options.hasScreens /\ ParseURL(path).ok
  /\ InsidePrefix(NormalizedRemaining(getExpoHelpers(path, env, <<>>)), options)

\* C11: flattening a configuration with a node that sets exact: true and declares
\* no path throws an error; no state is built from the routes of that node or of
\* its children.
C11_ExactNeedsPath ==
  (ReachedFlatten /\ ExactWithoutPath(options.screens)) => result.kind = "throw"

\* two routes of the flattened tree have one pattern and unrelated chains
AmbiguousTree ==
  LET flat == FlattenOptions(options).configs
  IN \E i, j \in 1..Len(flat) :
       /\ flat[i].pattern = flat[j].pattern
       /\ Unrelated(flat[i].routeNames, flat[j].routeNames)

\* C12: a call on a configuration whose flattened tree holds two routes of one
\* pattern and unrelated chains throws, whatever the input path is: also for
\* a path that cannot be parsed and for a path outside the options.path prefix.
C12_ErrorsIgnorePath ==
  (FirstCallReturned /\ options.hasScreens /\ AmbiguousTree)
    => result.kind = "throw"

\* the configuration raises none of the configuration errors
NoConfigError == ~AmbiguousTree /\ ~ExactWithoutPath(options.screens)

\* the call has nothing to resolve the path to: the path cannot be parsed, it is
\* outside the options.path prefix, or no rule of the configuration matches it
\* (the empty pattern, which has no rule, standing for the root path)
NothingMatches ==
  \/ ~ParseURL(path).ok
  \/ ~InsidePrefix(NormalizedRemaining(getExpoHelpers(path, env, <<>>)), options)
  \/ \A i \in 1..Len(configs) :
       /\ ~Matches(configs[i], remainingPath)
       /\ ~(remainingPath = <<"/">> /\ configs[i].pattern = <<>>)

\* C13: on a configuration without configuration errors, a call whose path cannot
\* be parsed, is outside the options.path prefix, or is matched by no pattern
\* returns undefined and throws nothing.
C13_NoMatchIsValue ==
  (FirstCallReturned /\ options.hasScreens /\ NoConfigError /\ NothingMatches)
    => result.kind = "undefined"

\* stripBaseUrl(p, b) as a call made now, under the rules cached so far, and as
\* the first call of a fresh process
StripsAlike(p, b) ==
  stripBaseUrl(p, [env EXCEPT !.EXPO_BASE_URL = b], baseUrlCache)
    = stripBaseUrl(p, [env EXCEPT !.EXPO_BASE_URL = b], <<>>)

\* C14: whatever calls came before, the result of a call of getStateFromPath is
\* the result of the same call in a fresh process, and so is the result of
\* stripBaseUrl for every base URL; every cached rule is the rule compiled from
\* its own key; no call removes a cached rule or changes the configuration tree.
C14_CallIndependence ==
  /\ [](/\ \A b \in DOMAIN baseUrlCache : baseUrlCache[b] = BaseUrlRegex(b)
        /\ \A b \in {Chars("/base"), Chars("/b"), Chars("/")} :
              StripsAlike(path, b) /\ StripsAlike(href, b)
        /\ pc = "returned"
             => result = getStateFromPath(path, options, env, <<>>,
                                          FlattenOptions(options).initials, configs))
  /\ [][/\ DOMAIN baseUrlCache \subseteq DOMAIN baseUrlCache'
         /\ \A b \in DOMAIN baseUrlCache : baseUrlCache'[b] = baseUrlCache[b]
         /\ options' = options]_vars

\* a path under the base URL has been resolved to a state while the cache held
\* the rule of another base URL as well
C14_Witness ==
  /\ pc = "returned" /\ calls >= 2 /\ result.kind = "state"
  /\ UsesBaseUrl(env) /\ href # path
  /\ \E b \in DOMAIN baseUrlCache : b # env.EXPO_BASE_URL

\* the signs m of the comparator are those of a total order on n routes
OppositeSigns(m, n) == \A i, j \in 1..n : m[i][j] = -m[j][i]

Transitive(m, n) ==
  \A i, j, k \in 1..n : (m[i][j] < 0 /\ m[j][k] < 0) => m[i][k] < 0

TotalOrderOn(flat) ==
  /\ OppositeSigns(ComparisonMatrix(flat.configs, flat.initials, segments),
                   Len(flat.configs))
  /\ Transitive(ComparisonMatrix(flat.configs, flat.initials, segments),
                Len(flat.configs))

\* C15: on the flattened routes of every configuration a call sorts, the sign of
\* sortConfigs(a, b) is the opposite of the sign of sortConfigs(b, a), and
\* sortConfigs(a, b) < 0 with sortConfigs(b, c) < 0 implies sortConfigs(a, c) < 0.
C15_TotalOrder ==
  (FirstCallReturned /\ Len(configs) > 0) => TotalOrderOn(FlattenOptions(options))

\* a path written with a group segment resolved to a state, and the caller then
\* resolved the same path written without its group segments
ResolvedWithoutGroups ==
  /\ pc = "returned" /\ calls = 2 /\ HasGroupSegment(href)
  /\ path # href

\* the state of the last call has the chain, the path-derived params and the
\* focused path of the state of the call before it
SameResolution ==
  /\ result.kind = "state"
  /\ Chain(result) = Chain(prev)
  /\ result.routes = prev.routes
  /\ FocusedRoute(result).path = FocusedRoute(prev).path

\* C16 as stated: the path written with a group segment and the path written
\* without it resolve to equal states.
C16_GroupsOptional == ResolvedWithoutGroups => SameResolution

\* the pattern of the route at c ends in a wildcard segment
EndsInWildcard(c) ==
  /\ configs[c].hasRegex
  /\ StartsWith(LastPart(configs[c].pattern), <<"*">>)

\* the segments of the path the call matched its rules against
PathSegments == FilterNonEmpty(Split(remainingPath, "/"))

\* the first k segments of the path spell P, the pattern of the route at c less
\* its wildcard segment
SpellsPrefix(c, k) ==
  IF Len(configs[c].regex) = 1 THEN k = 0
  ELSE RegexMatch(SubSeq(configs[c].regex, 1, Len(configs[c].regex) - 1),
                  IF k = 0 THEN <<>>
                  ELSE Join(SubSeq(PathSegments, 1, k), "/") \o <<"/">>).ok

\* the matcher is given the path and the rule of the route at c matches it; the
\* root path is never given to the matcher
MatchedBy(c) == remainingPath # <<"/">> /\ Matches(configs[c], remainingPath)

\* the rule of the route at c matches a path that spells P and n further
\* segments for n >= 1, and for n = 0 exactly when the wildcard ends in '?'
Absorbs(c) ==
  \A k \in 0..Len(PathSegments) :
    SpellsPrefix(c, k)
      => (MatchedBy(c) <=> (\/ Len(PathSegments) - k >= 1
                            \/ EndsWith(configs[c].pattern, <<"?">>)))

Matched ==
  /\ FirstCallReturned /\ result.kind = "state"
  /\ options.hasScreens /\ remainingPath # <<"/">>

\* the params extracted for route i of the chain of the config at m, which matched
Extracted(m, i) ==
  RouteParams(configs[m].routeNames[i], configs[m], configs,
              MatchedParams(configs[m].pattern,
                            RegexMatch(configs[m].regex, remainingPath).groups))

\* the union of the params extracted along the chain of the config at m, the
\* innermost route that has a name giving its value
UnionOfExtracted(m) ==
  LET n == Len(configs[m].routeNames)
      names == UNION {DOMAIN Extracted(m, i) : i \in 1..n}
      inner(name) == CHOOSE i \in 1..n :
                       /\ name \in DOMAIN Extracted(m, i)
                       /\ \A j \in 1..n : name \in DOMAIN Extracted(m, j) => j <= i
  IN [name \in names |-> Extracted(m, inner(name))[name]]

CascadedFrom(m) ==
  /\ Len(result.routes) = Len(configs[m].routeNames)
  /\ \A i \in 1..Len(result.routes) :
       /\ result.routes[i].name = configs[m].routeNames[i]
       /\ result.routes[i].hasParams = (DOMAIN UnionOfExtracted(m) # {})
       /\ DOMAIN result.routes[i].params = DOMAIN UnionOfExtracted(m)
       /\ \A name \in DOMAIN UnionOfExtracted(m) :
            result.routes[i].params[name] = UnionOfExtracted(m)[name]

InitialEntries(k) ==
  {e \in {FlattenOptions(options).initials[i] :
            i \in 1..Len(FlattenOptions(options).initials)} :
     /\ e.parentScreens = [i \in 1..(k - 1) |-> result.routes[i].name]
     /\ e.initialRouteName # result.routes[k].name}

\* the active route of level k is route k of the chain; it carries the next
\* level when there is one, and no state at all when there is none
ActiveRouteAt(k, pos) ==
  /\ result.levels[k].routes[pos].name = result.routes[k].name
  /\ result.levels[k].routes[pos].state
       = (IF k < Len(result.levels) THEN "nested" ELSE "none")

ShapeAt(k) ==
  IF InitialEntries(k) # {}
  THEN /\ result.levels[k].hasIndex /\ result.levels[k].index = 1
       /\ Len(result.levels[k].routes) = 2
       /\ \E e \in InitialEntries(k) :
            result.levels[k].routes[1].name = e.initialRouteName
       /\ result.levels[k].routes[1].params = result.routes[k].params
       /\ result.levels[k].routes[1].state = "none"
       /\ ActiveRouteAt(k, 2)
  ELSE /\ ~result.levels[k].hasIndex
       /\ Len(result.levels[k].routes) = 1
       /\ ActiveRouteAt(k, 1)

\* C19: a returned state has one level per route of the matched chain, in chain
\* order; a level for which an initial-route entry with the same parentScreens
\* names another route is { index: 1, routes: [that route with the active
\* route's path params, active route] }, any other level is { routes: [active
\* route] } without index; no level is left as the placeholder { routes: [] }.
C19_StateShape ==
  (pc = "returned" /\ result.kind = "state")
    => /\ Len(result.levels) = Len(result.routes)
       /\ \A k \in 1..Len(result.levels) : ShapeAt(k)

\* a state of two levels, each with an inserted initial route that carries the
\* params the path gave the active route
C19_Witness ==
  /\ pc = "returned" /\ result.kind = "state"
  /\ Len(result.levels) = 2
  /\ \A k \in 1..2 :
       /\ InitialEntries(k) # {}
       /\ result.levels[k].routes[1].params # NoParams
       /\ ShapeAt(k)

\* the keys the query string and the hash of the resolved path give
QueryAndHashKeys ==
  QueryKeys \cup (IF ParseURL(path).hash # <<>> THEN {<<"#">>} ELSE {})

\* the route at position pos of level k is the deepest active route
IsFocused(k, pos) ==
  k = Len(result.levels) /\ pos = ActiveAt(result.levels[k])

\* C20: in a returned state the deepest active route, and no other, has a path;
\* it has every key of the query string and of the hash; every other route, the
\* initial route inserted at the leaf level included, has exactly the params the
\* path gave the active route of its level.
C20_OnlyLeafHasPathAndQuery ==
  (pc = "returned" /\ result.kind = "state")
    => \A k \in 1..Len(result.levels) :
         \A pos \in 1..Len(result.levels[k].routes) :
           IF IsFocused(k, pos)
           THEN /\ result.levels[k].routes[pos].hasPath
                /\ QueryAndHashKeys \subseteq DOMAIN result.levels[k].routes[pos].params
           ELSE /\ ~result.levels[k].routes[pos].hasPath
                /\ result.levels[k].routes[pos].params = result.routes[k].params

\* a path with params, a query string and a hash resolved to a state of two
\* levels with an initial route inserted next to the focused route
C20_Witness ==
  /\ pc = "returned" /\ result.kind = "state"
  /\ Len(result.levels) = 2
  /\ Len(result.levels[2].routes) = 2
  /\ PathParams # NoParams
  /\ QueryKeys # {} /\ <<"#">> \in QueryAndHashKeys
  /\ QueryAndHashKeys \cap DOMAIN result.levels[2].routes[1].params = {}
  /\ QueryAndHashKeys \subseteq DOMAIN result.levels[2].routes[2].params

\* the rules of the routes at a and b both match the path, the routes are both
\* static or both not, neither pattern is a string-prefix of the other, and the
\* previous segments agree with more group segments of the names of the route at a
ContextPair(a, b) ==
  /\ Matches(configs[a], remainingPath) /\ Matches(configs[b], remainingPath)
  /\ IsStaticRoute(configs[a]) = IsStaticRoute(configs[b])
  /\ ~StartsWith(configs[a].pattern, configs[b].pattern)
  /\ ~StartsWith(configs[b].pattern, configs[a].pattern)
  /\ SimilarToPrevious(configs[a], segments) > SimilarToPrevious(configs[b], segments)

\* C21: of two routes that both match the path, are both static or both not, and
\* of which neither pattern is a string-prefix of the other, the one whose names
\* agree with the previous segments at more group segments is tried first and the
\* other is not the route chosen, in either declaration order; without previous
\* segments no route agrees with any.
C21_ContextContinuity ==
  (FirstCallReturned /\ Len(configs) > 0 /\ remainingPath # <<"/">>)
    => /\ \A a, b \in 1..Len(configs) :
            ContextPair(a, b)
              => /\ a < b
                 /\ result.kind = "state"
                 /\ Chain(result) # configs[b].routeNames
       /\ segments = <<>>
            => \A c \in 1..Len(configs) : SimilarToPrevious(configs[c], segments) = 0

====
